---- MODULE Spec2Model ----
(***************************************************************************)
(* Model of stgit/completion/fish.py: the generator of the fish shell      *)
(* completion script of StGit.  write_fish_completion is a sequential      *)
(* procedure; every call of put() is one write to the output stream f,     *)
(* recorded in out.  Strings are TLA+ strings; print() and the % operator  *)
(* are modelled by concatenation.                                          *)
(***************************************************************************)
EXTENDS Integers, Sequences, FiniteSets, TLC

VARIABLES
    commands,   \* stgit.commands.get_commands(), each entry resolved to its module
    DEFAULTS,   \* stgit.config.DEFAULTS: sequence of <<name, values>>
    aliases,    \* local list aliases of write_fish_completion
    out,        \* the writes made to f by put(), in order
    pc,         \* position in write_fish_completion
    i,          \* index of the running "for alias"/"for cmd" loop
    j           \* index of the running "for opt in mod.options" loop

vars == <<commands, DEFAULTS, aliases, out, pc, i, j>>

\* ------------------------------------------------------------------ bounds
MaxCmds == 2
MaxDefaults == 2
MaxArgs == 2

\* ------------------------------------------------- python string operations
\* a containment test in place of the prefix test
startswith_anywhere(s, p) ==
    \E k \in 1..(Len(s) - Len(p) + 1) : SubSeq(s, k, k + Len(p) - 1) = p

\* str.startswith
startswith(s, p) == Len(s) >= Len(p) /\ SubSeq(s, 1, Len(p)) = p

\* str.find: index (1-based) of the first occurrence of sub at or after k, 0 if none
find(s, sub, k) ==
    LET hits == {p \in k..(Len(s) - Len(sub) + 1) : SubSeq(s, p, p + Len(sub) - 1) = sub}
    IN IF hits = {} THEN 0 ELSE CHOOSE p \in hits : \A q \in hits : p <= q

\* str.replace(old, new, 1): the first occurrence only
replace1(s, old, new) ==
    LET k == find(s, old, 1) IN
    IF k = 0 THEN s
    ELSE SubSeq(s, 1, k - 1) \o new \o SubSeq(s, k + Len(old), Len(s))

\* sep.join(seq)
RECURSIVE join(_, _)
join(seq, sep) ==
    IF Len(seq) = 0 THEN ""
    ELSE IF Len(seq) = 1 THEN seq[1]
    ELSE LET h == Len(seq) \div 2 IN
         join(SubSeq(seq, 1, h), sep) \o sep \o join(SubSeq(seq, h + 1, Len(seq)), sep)

\* print(*args, sep=sep, file=f): the text written, without the final newline
print(args, sep) == join(args, sep)

\* ------------------------------------------------ argument specifications
\* stgit.argparse values as seen by fish.py: patch_range(...) and strings(...)
\* are list subclasses, every other argument is a bare string.
patch_range(items) == [kind |-> "patch_range", items |-> items]
strings(items) == [kind |-> "strings", items |-> items]
word(s) == [kind |-> "str", items |-> <<s>>]

_file_args == <<"files", "dir", "repo">>
_has_fish_func_args ==
    <<"stg_branches", "all_branches", "applied_patches", "unapplied_patches",
      "hidden_patches", "other_applied_patches", "commit", "conflicting_files",
      "dirty_files", "unknown_files", "known_files", "mail_aliases">>

Elems(seq) == {seq[k] : k \in 1..Len(seq)}

\* "s in lst" for a list of strings lst: a list object never equals a string
InStrList(arg, lst) == arg.kind = "str" /\ arg.items[1] \in Elems(lst)

\* "file_arg in args": some element of args equals the string file_arg
ContainsStr(args, s) == \E k \in 1..Len(args) : args[k] = word(s)

\* the path kinds looked up in the items of the arguments too
FlagFromAnyItem(args) ==
    IF \E k \in 1..Len(args) : \E m \in 1..Len(args[k].items) :
          args[k].items[m] \in Elems(_file_args)
    THEN "-r" ELSE "-f"

_get_file_completion_flag(args) ==
    IF \E k \in 1..Len(_file_args) : ContainsStr(args, _file_args[k])
    THEN "-r" ELSE "-f"

\* '(__fish_stg_%s)' % keyword
ProviderCall(keyword) == "(__fish_stg_" \o keyword \o ")"

\* every endpoint taken, recognized or not
EndpointCompletions_Unchecked(eps) == [k \in 1..Len(eps) |-> ProviderCall(eps[k])]

\* the inner loop "for endpoint in arg"
RECURSIVE EndpointCompletions(_)
EndpointCompletions(eps) ==
    IF Len(eps) = 0 THEN <<>>
    ELSE (IF eps[1] \in Elems(_has_fish_func_args)
          THEN <<ProviderCall(eps[1])>> ELSE <<>>)
         \o EndpointCompletions(Tail(eps))

\* an argument of unknown kind skipped instead of raising
RECURSIVE CollectCompletions_Lenient(_, _)
CollectCompletions_Lenient(args, completions) ==
    IF Len(args) = 0 THEN [raised |-> FALSE, completions |-> completions]
    ELSE LET arg == args[1] IN
         IF arg.kind = "patch_range"
         THEN CollectCompletions_Lenient(Tail(args),
                                         completions \o EndpointCompletions(arg.items))
         ELSE IF arg.kind = "strings"
         THEN CollectCompletions_Lenient(Tail(args), completions \o arg.items)
         ELSE IF InStrList(arg, _has_fish_func_args)
         THEN CollectCompletions_Lenient(Tail(args),
                                         completions \o <<ProviderCall(arg.items[1])>>)
         ELSE CollectCompletions_Lenient(Tail(args), completions)

\* the loop "for arg in args", started with the completions collected so far;
\* raised is TRUE when the AssertionError of the last branch is raised
RECURSIVE CollectCompletions(_, _)
CollectCompletions(args, completions) ==
    IF Len(args) = 0 THEN [raised |-> FALSE, completions |-> completions]
    ELSE LET arg == args[1] IN
         IF arg.kind = "patch_range"
         THEN CollectCompletions(Tail(args), completions \o EndpointCompletions(arg.items))
         ELSE IF arg.kind = "strings"
         THEN CollectCompletions(Tail(args), completions \o arg.items)
         ELSE IF InStrList(arg, _file_args)
         THEN CollectCompletions(Tail(args), completions)
         ELSE IF InStrList(arg, _has_fish_func_args)
         THEN CollectCompletions(Tail(args), completions \o <<ProviderCall(arg.items[1])>>)
         ELSE [raised |-> TRUE, completions |-> completions]

\* _completions_from_args: ret holds the returned string, and is empty when the
\* call raises instead of returning
_completions_from_args(args) ==
    LET r == CollectCompletions(args, <<>>) IN
    IF r.raised THEN [raised |-> TRUE, ret |-> <<>>]
    ELSE [raised |-> FALSE, ret |-> <<join(r.completions, " ")>>]

\* Python truth value of a string
Truthy(s) == s # ""

\* -------------------------------------------------------- alias resolution
RECURSIVE ResolveAliasList(_)
ResolveAliasList(defaults) ==
    IF Len(defaults) = 0 THEN <<>>
    ELSE LET name == defaults[1][1]
             values == defaults[1][2]
         IN (IF startswith(name, "stgit.alias.")
             THEN << <<replace1(name, "stgit.alias.", ""), values[1]>> >>
             ELSE <<>>)
            \o ResolveAliasList(Tail(defaults))

AliasNames(al) == [k \in 1..Len(al) |-> al[k][1]]

\* ------------------------------------------------------------ fixed texts
PreambleLines ==
    <<
       "# Fish shell completion for StGit (stg)",
       "#",
       "# To use, copy this file to one of the paths in $fish_complete_path, e.g.:",
       "#",
       "#   ~/.config/fish/completions",
       "#",
       "# This file is autogenerated.",
       "",
       "function __fish_stg_all_branches",
       "    command git for-each-ref --format='%(refname)' \\",
       "        refs/heads/ refs/remotes/ 2>/dev/null \\",
       "        | string replace -r '^refs/heads/(.*)$' '$1\\tLocal Branch' \\",
       "        | string replace -r '^refs/remotes/(.*)$' '$1\\tRemote Branch'",
       "end",
       "",
       "function __fish_stg_stg_branches",
       "    command stg branch --list 2>/dev/null \\",
       "        | string match -r \". s.\\t\\S+\" \\",
       "        | string replace -r \". s.\\t\" \"\"",
       "end",
       "",
       "function __fish_stg_applied_patches",
       "    command stg series --noprefix --applied 2>/dev/null",
       "end",
       "",
       "function __fish_stg_other_applied_patches",
       "    set -l top (command stg top 2>/dev/null)",
       "    command stg series --noprefix --applied 2>/dev/null \\",
       "        | string match --invert \"$top\"",
       "end",
       "",
       "function __fish_stg_unapplied_patches",
       "    command stg series --noprefix --unapplied 2>/dev/null",
       "end",
       "",
       "function __fish_stg_hidden_patches",
       "    command stg series --noprefix --hidden 2>/dev/null",
       "end",
       "",
       "function __fish_stg_tags",
       "    command git tag --sort=-creatordate 2>/dev/null",
       "end",
       "",
       "function __fish_stg_commit",
       "    __fish_stg_all_branches __fish_stg_tags",
       "end",
       "",
       "function __fish_stg_conflicting_files",
       "    command git ls-files --unmerged \\",
       "        | string replace -rf '^.*\\t(.*)$' '$1' \\",
       "        | sort -u",
       "end",
       "",
       "function __fish_stg_dirty_files",
       "    command git diff-index --name-only HEAD 2>/dev/null",
       "end",
       "",
       "function __fish_stg_unknown_files",
       "    command git ls-files --others --exclude-standard 2>/dev/null",
       "end",
       "",
       "function __fish_stg_known_files",
       "    command git ls-files 2>/dev/null",
       "end",
       "",
       "function __fish_stg_mail_aliases",
       "    command git config --name-only --get-regexp \"^mail\\.alias\\.\" \\",
       "    | cut -d. -f 3",
       "end"
    >>

IsAliasText(al) ==
    join(<<"",
           "function __fish_stg_is_alias",
           "    set --local tokens (commandline -opc) (commandline -ct)",
           "    if test \"$tokens[1]\" = \"stg\"",
           "        switch \"$tokens[2]\"",
           "            case " \o join(AliasNames(al), " "),
           "                return 0",
           "            case '*'",
           "                return 1",
           "        end",
           "    end",
           "end">>, "\n")

DispatchHeadText ==
    join(<<"",
           "function __fish_stg_complete_alias",
           "    set --local tokens (commandline -opc) (commandline -ct)",
           "    set --local cmd \"$tokens[2]\"",
           "    set --erase tokens[1 2]",
           "    switch \"$cmd\"">>, "\n")

DispatchEndText ==
    join(<<"    end",
           "    complete -C\"$tokens\"",
           "end",
           "">>, "\n")

\* the alias annotated with its own name
AliasSuggestion_OwnName(alias, command) ==
    "-a " \o alias \o " -d 'Alias for \"" \o alias \o "\"'"

\* -d 'Alias for "<command>"' with its -a <alias>
AliasSuggestion(alias, command) ==
    "-a " \o alias \o " -d 'Alias for \"" \o command \o "\"'"

\* the predicate of the help listing
SeenSubcommand_Help(cmd) == "-n '__fish_seen_subcommand_from help'"

\* "-n '__fish_seen_subcommand_from %s'" % cmd
SeenSubcommand(cmd) == "-n '__fish_seen_subcommand_from " \o cmd \o "'"

\* one write of put(): the call site, the loop index it was made under (0 outside
\* the loops), the positional arguments of put and the text print() writes
Put(site, idx, args, sep) ==
    [site |-> site, idx |-> idx, args |-> args, text |-> print(args, sep)]

\* ------------------------------------------------------------------ inputs
\* an option of a command module: opt.flags, opt.args, opt.kwargs.get('short')
Opt(flags, args, short) == [flags |-> flags, args |-> args, short |-> short]

\* a registry entry with its module resolved: cmd, mod.help, mod.args, mod.options
Cmd(name, help, args, options) ==
    [name |-> name, help |-> help, args |-> args, options |-> options]

MessageOpt == Opt(<<"-m", "--message">>, <<strings(<<>>)>>, "patch message")
BranchOpt == Opt(<<"-b", "--branch">>, <<word("stg_branches")>>, "use BRANCH")
BadOpt == Opt(<<"--bad">>, <<word("commit"), word("nonsense")>>, "bad option")

CommandPool ==
    { Cmd("new", "Create a new patch", <<>>, <<MessageOpt>>),
      Cmd("push", "Push patches", <<patch_range(<<"unapplied_patches">>)>>,
          <<MessageOpt, BranchOpt>>),
      Cmd("add", "Add files", <<word("files")>>, <<>>),
      Cmd("odd", "Odd arguments", <<word("known_files"), word("nonsense")>>,
          <<MessageOpt>>),
      Cmd("opt", "Odd option", <<strings(<<"a", "b">>)>>,
          <<BranchOpt, BadOpt, MessageOpt>>) }

DefaultsPool ==
    { <<"stgit.alias.co", <<"checkout">>>>,
      <<"stgit.alias.s", <<"status">>>>,
      <<"stgit.shortnr", <<"5">>>> }

\* more keys: an alias of an alias, several values, the namespace inside the key,
\* the namespace twice
AliasDefaultsPool ==
    DefaultsPool \cup
    { <<"stgit.alias.c", <<"co">>>>,
      <<"stgit.alias.add", <<"git", "add">>>>,
      <<"my.stgit.alias.x", <<"x">>>>,
      <<"stgit.alias.stgit.alias.z", <<"top">>>> }

ArgSpecPool ==
    { word("files"), word("dir"),
      word("commit"), word("mail_aliases"),
      word("nonsense"),
      strings(<<>>), strings(<<"a", "b">>), strings(<<"">>), strings(<<"files">>),
      patch_range(<<"applied_patches", "unapplied_patches">>),
      patch_range(<<"dir", "hidden_patches">>),
      patch_range(<<"repo">>) }

\* flags of a well-formed option: at most one short and one long flag
FlagsPool ==
    { <<"-m", "--message">>, <<"--message", "-m">>, <<"-m">>, <<"--message">>,
      <<"-O", "--diff-opts">> }

SeqsUpTo(S, n) == UNION {[1..k -> S] : k \in 0..n}

\* command names are unique within the registry
Registries ==
    {r \in SeqsUpTo(CommandPool, MaxCmds) :
        \A a, b \in 1..Len(r) : a # b => r[a].name # r[b].name}

DefaultsTables == SeqsUpTo(DefaultsPool, MaxDefaults)

ArgLists == SeqsUpTo(ArgSpecPool, MaxArgs)

PushCmd ==
    Cmd("push", "Push patches", <<patch_range(<<"unapplied_patches">>)>>,
        <<MessageOpt, BranchOpt>>)

\* ---------------------------------------------------- write_fish_completion
\* the state at the call of write_fish_completion
Start ==
    /\ aliases = <<>>
    /\ out = <<>>
    /\ pc = "start"
    /\ i = 0
    /\ j = 0

\* registries of commands and small defaults tables
Init ==
    /\ commands \in Registries
    /\ DEFAULTS \in DefaultsTables
    /\ Start

\* one command whose positional arguments, or whose option, range over all the
\* argument lists; a second command follows it
InitArgs ==
    /\ \/ \E args \in ArgLists :
             commands = << Cmd("new", "Create a new patch", args, <<MessageOpt>>), PushCmd >>
       \/ \E flags \in FlagsPool, args \in ArgLists :
             commands = << Cmd("new", "Create a new patch", <<>>,
                               <<Opt(flags, args, "patch message")>>), PushCmd >>
    /\ DEFAULTS = << <<"stgit.alias.co", <<"checkout">>>>, <<"stgit.shortnr", <<"5">>>> >>
    /\ Start

\* all the defaults tables, one command
InitAliases ==
    /\ commands = << Cmd("new", "Create a new patch", <<>>, <<MessageOpt>>) >>
    /\ DEFAULTS \in SeqsUpTo(AliasDefaultsPool, MaxDefaults)
    /\ Start

\* lines 60-66
ResolveAliases ==
    /\ pc = "start"
    /\ aliases' = ResolveAliasList(DEFAULTS)
    /\ pc' = "preamble"
    /\ UNCHANGED <<commands, DEFAULTS, out, i, j>>

\* lines 68-139
PutPreamble ==
    /\ pc = "preamble"
    /\ out' = Append(out, Put("preamble", 0, <<join(PreambleLines, "\n")>>, " "))
    /\ pc' = "is_alias"
    /\ UNCHANGED <<commands, DEFAULTS, aliases, i, j>>

\* lines 141-154
PutIsAlias ==
    /\ pc = "is_alias"
    /\ out' = Append(out, Put("is_alias", 0, <<IsAliasText(aliases)>>, " "))
    /\ pc' = "dispatch_head"
    /\ UNCHANGED <<commands, DEFAULTS, aliases, i, j>>

\* lines 156-163
PutDispatchHead ==
    /\ pc = "dispatch_head"
    /\ out' = Append(out, Put("dispatch_head", 0, <<DispatchHeadText>>, " "))
    /\ pc' = "dispatch_loop"
    /\ i' = 1
    /\ UNCHANGED <<commands, DEFAULTS, aliases, j>>

\* lines 164-166, one iteration
PutDispatchCase ==
    /\ pc = "dispatch_loop"
    /\ i <= Len(aliases)
    /\ out' = out \o
         << Put("dispatch_case", i, <<"        case", aliases[i][1]>>, " "),
            Put("dispatch_set", i,
                <<"            set --prepend tokens", aliases[i][2]>>, " ") >>
    /\ i' = i + 1
    /\ UNCHANGED <<commands, DEFAULTS, aliases, pc, j>>

\* lines 167-179
PutDispatchEnd ==
    /\ pc = "dispatch_loop"
    /\ i > Len(aliases)
    /\ out' = out \o
         << Put("dispatch_end", 0, <<DispatchEndText>>, " "),
            Put("aliases_header", 0,
                <<"### Aliases: " \o join(AliasNames(aliases), " ")>>, " "),
            Put("alias_complete", 0,
                <<"complete    -c stg -n '__fish_stg_is_alias' -x",
                  "-a '(__fish_stg_complete_alias)'">>, " ") >>
    /\ pc' = "alias_use_loop"
    /\ i' = 1
    /\ UNCHANGED <<commands, DEFAULTS, aliases, j>>

\* lines 180-184, one iteration
PutAliasUse ==
    /\ pc = "alias_use_loop"
    /\ i <= Len(aliases)
    /\ out' = Append(out,
         Put("alias_use", i,
             <<"complete    -c stg -n '__fish_use_subcommand' -x",
               AliasSuggestion(aliases[i][1], aliases[i][2])>>, " "))
    /\ i' = i + 1
    /\ UNCHANGED <<commands, DEFAULTS, aliases, pc, j>>

\* lines 186-192
PutHelpHeader ==
    /\ pc = "alias_use_loop"
    /\ i > Len(aliases)
    /\ out' = out \o
         << Put("blank", 0, <<>>, " "),
            Put("help_header", 0, <<"### help">>, " "),
            Put("help_use", 0,
                <<"complete -f -c stg -n '__fish_use_subcommand' -x",
                  "-a help -d 'print the detailed command usage'">>, " ") >>
    /\ pc' = "help_cmd_loop"
    /\ i' = 1
    /\ UNCHANGED <<commands, DEFAULTS, aliases, j>>

\* lines 193-198, one iteration
PutHelpCmd ==
    /\ pc = "help_cmd_loop"
    /\ i <= Len(commands)
    /\ out' = Append(out,
         Put("help_cmd", i,
             <<"complete -f -c stg -n '__fish_seen_subcommand_from help'",
               "-a " \o commands[i].name \o " -d '" \o commands[i].help \o "'">>, " "))
    /\ i' = i + 1
    /\ UNCHANGED <<commands, DEFAULTS, aliases, pc, j>>

\* the alias lines of the help listing left out
EnterHelpAlias_SkipListing ==
    /\ pc = "help_cmd_loop"
    /\ i > Len(commands)
    /\ pc' = "cmd_loop"
    /\ i' = 1
    /\ UNCHANGED <<commands, DEFAULTS, aliases, out, j>>

\* line 199: the loop over the commands is exhausted, the loop over the aliases starts
EnterHelpAlias ==
    /\ pc = "help_cmd_loop"
    /\ i > Len(commands)
    /\ pc' = "help_alias_loop"
    /\ i' = 1
    /\ UNCHANGED <<commands, DEFAULTS, aliases, out, j>>

\* lines 199-203, one iteration
PutHelpAlias ==
    /\ pc = "help_alias_loop"
    /\ i <= Len(aliases)
    /\ out' = Append(out,
         Put("help_alias", i,
             <<"complete -f -c stg -n '__fish_seen_subcommand_from help'",
               AliasSuggestion(aliases[i][1], aliases[i][2])>>, " "))
    /\ i' = i + 1
    /\ UNCHANGED <<commands, DEFAULTS, aliases, pc, j>>

\* line 205: the loop over the aliases is exhausted, the loop over the commands starts
EnterCommands ==
    /\ pc = "help_alias_loop"
    /\ i > Len(aliases)
    /\ pc' = "cmd_loop"
    /\ i' = 1
    /\ UNCHANGED <<commands, DEFAULTS, aliases, out, j>>

\* lines 205-212
CmdBegin ==
    /\ pc = "cmd_loop"
    /\ i <= Len(commands)
    /\ out' = out \o
         << Put("cmd_header", i, <<"", "### " \o commands[i].name>>, "\n"),
            Put("cmd_use", i,
                <<"complete    -c stg -n '__fish_use_subcommand' -x",
                  "-a " \o commands[i].name \o " -d '" \o commands[i].help \o "'">>, " ") >>
    /\ pc' = "cmd_args"
    /\ UNCHANGED <<commands, DEFAULTS, aliases, i, j>>

\* the value expression attached also when it is empty
Extra_Always(switch, completions) == switch \o " '" \o completions \o "'"

\* lines 214-218 and 240-244: the extra argument of the directive
Extra(switch, completions) ==
    IF Truthy(completions) THEN switch \o " '" \o completions \o "'" ELSE ""

\* lines 220-226: the arguments of put
PositionalArgs(cmd, args, extra) ==
    <<"complete", _get_file_completion_flag(args), "-c stg", SeenSubcommand(cmd), extra>>

\* lines 214-226; an AssertionError raised by line 214 leaves the function
CmdArgs ==
    /\ pc = "cmd_args"
    /\ LET mod == commands[i]
           r == _completions_from_args(mod.args)
       IN IF r.raised
          THEN /\ pc' = "raised"
               /\ UNCHANGED out
          ELSE /\ out' = Append(out,
                    Put("cmd_args", i,
                        PositionalArgs(mod.name, mod.args, Extra("-ra", r.ret[1])), " "))
               /\ pc' = "cmd_helpflag"
    /\ UNCHANGED <<commands, DEFAULTS, aliases, i, j>>

\* lines 227-230
CmdHelpFlag ==
    /\ pc = "cmd_helpflag"
    /\ out' = Append(out,
         Put("cmd_helpflag", i,
             <<"complete -f -c stg " \o SeenSubcommand(commands[i].name),
               "-s h -l help -d 'show detailed help for " \o commands[i].name \o "'">>, " "))
    /\ pc' = "opt_loop"
    /\ j' = 1
    /\ UNCHANGED <<commands, DEFAULTS, aliases, i>>

\* lines 233-239: the loop "for flag in opt.flags" for short_opt
RECURSIVE ShortOpt(_, _)
ShortOpt(flags, short_opt) ==
    IF Len(flags) = 0 THEN short_opt
    ELSE LET flag == flags[1] IN
         ShortOpt(Tail(flags),
                  IF Len(flag) = 2 /\ startswith(flag, "-")
                  THEN "-s " \o SubSeq(flag, 2, 2) ELSE short_opt)

\* one dash kept in the long flag's name
RECURSIVE LongOpt_KeepDash(_, _)
LongOpt_KeepDash(flags, long_opt) ==
    IF Len(flags) = 0 THEN long_opt
    ELSE LET flag == flags[1] IN
         LongOpt_KeepDash(Tail(flags),
                          IF startswith(flag, "--")
                          THEN "-l " \o SubSeq(flag, 2, Len(flag)) ELSE long_opt)

\* lines 233-239: the loop "for flag in opt.flags" for long_opt
RECURSIVE LongOpt(_, _)
LongOpt(flags, long_opt) ==
    IF Len(flags) = 0 THEN long_opt
    ELSE LET flag == flags[1] IN
         LongOpt(Tail(flags),
                 IF startswith(flag, "--")
                 THEN "-l " \o SubSeq(flag, 3, Len(flag)) ELSE long_opt)

\* the options taken from the last to the first
NthOption_Reversed(options, k) == options[Len(options) + 1 - k]

\* line 232: the k-th option of "for opt in mod.options"
NthOption(options, k) == options[k]

\* lines 245-254: the arguments of put
OptionArgs(cmd, opt, extra) ==
    <<"complete", _get_file_completion_flag(opt.args), "-c stg", SeenSubcommand(cmd),
      ShortOpt(opt.flags, "    "), LongOpt(opt.flags, ""),
      "-d '" \o opt.short \o "'", extra>>

\* lines 232-254, one iteration; an AssertionError raised by line 240 leaves the function
CmdOption ==
    /\ pc = "opt_loop"
    /\ j <= Len(commands[i].options)
    /\ LET mod == commands[i]
           opt == NthOption(mod.options, j)
           r == _completions_from_args(opt.args)
       IN IF r.raised
          THEN /\ pc' = "raised"
               /\ UNCHANGED <<out, j>>
          ELSE /\ out' = Append(out,
                    Put("cmd_opt", i, OptionArgs(mod.name, opt, Extra("-xa", r.ret[1])), " "))
               /\ j' = j + 1
               /\ pc' = pc
    /\ UNCHANGED <<commands, DEFAULTS, aliases, i>>

\* line 205: the options are exhausted, the next iteration of "for cmd" starts
NextCommand ==
    /\ pc = "opt_loop"
    /\ j > Len(commands[i].options)
    /\ pc' = "cmd_loop"
    /\ i' = i + 1
    /\ UNCHANGED <<commands, DEFAULTS, aliases, out, j>>

\* the loop of line 205 is exhausted: write_fish_completion returns
Return ==
    /\ pc = "cmd_loop"
    /\ i > Len(commands)
    /\ pc' = "done"
    /\ UNCHANGED <<commands, DEFAULTS, aliases, out, i, j>>

Next ==
    \/ ResolveAliases
    \/ PutPreamble
    \/ PutIsAlias
    \/ PutDispatchHead
    \/ PutDispatchCase
    \/ PutDispatchEnd
    \/ PutAliasUse
    \/ PutHelpHeader
    \/ PutHelpCmd
    \/ EnterHelpAlias
    \/ PutHelpAlias
    \/ EnterCommands
    \/ CmdBegin
    \/ CmdArgs
    \/ CmdHelpFlag
    \/ CmdOption
    \/ NextCommand
    \/ Return

Spec == Init /\ [][Next]_vars

SpecArgs == InitArgs /\ [][Next]_vars

SpecAliases == InitAliases /\ [][Next]_vars

\* ======================================================================
\* Properties
\* ======================================================================

\* ------------------------------------------------- reading the output
BlockSites == {"cmd_header", "cmd_use", "cmd_args", "cmd_helpflag", "cmd_opt"}
BlockDirectives == {"cmd_use", "cmd_args", "cmd_helpflag", "cmd_opt"}
NonBlockSites ==
    {"preamble", "is_alias", "dispatch_head", "dispatch_case", "dispatch_set",
     "dispatch_end", "aliases_header", "alias_complete", "alias_use", "blank",
     "help_header", "help_use", "help_cmd", "help_alias"}

Lines(site) == SelectSeq(out, LAMBDA e : e.site = site)
Block(c) == SelectSeq(out, LAMBDA e : e.site \in BlockSites /\ e.idx = c)
BlockSiteSeq(c) == [k \in 1..Len(Block(c)) |-> Block(c)[k].site]
Positions(c) == {p \in 1..Len(out) : out[p].site \in BlockSites /\ out[p].idx = c}
CountUpTo(site, q) == Cardinality({p \in 1..q : out[p].site = site})
CountFor(site, c) ==
    Cardinality({p \in 1..Len(out) : out[p].site = site /\ out[p].idx = c})

\* the option the directive at position p was written for: its rank among the
\* option directives of its command
OptIndex(p) ==
    Cardinality({q \in 1..p : out[q].site = "cmd_opt" /\ out[q].idx = out[p].idx})

\* the argument list the directive at position p (positional or option) was written for
LineArgList(p) ==
    IF out[p].site = "cmd_args" THEN commands[out[p].idx].args
    ELSE commands[out[p].idx].options[OptIndex(p)].args

\* the last argument of put: the value expression
ValueExpr(p) == out[p].args[Len(out[p].args)]

InCommandLoop == pc \in {"cmd_loop", "cmd_args", "cmd_helpflag", "opt_loop", "raised", "done"}

\* the block of command c has been written completely
Finished(c) == InCommandLoop /\ i > c

Contains(text, sub) == find(text, sub, 1) > 0

IsPrefix(s, t) == Len(s) <= Len(t) /\ \A k \in 1..Len(s) : s[k] = t[k]

\* every argument list of the registry
AllArgLists ==
    {commands[c].args : c \in 1..Len(commands)} \cup
    UNION {{commands[c].options[k].args : k \in 1..Len(commands[c].options)} :
              c \in 1..Len(commands)}

\* --------------------------------- the variants of Argument Specification
PathKinds == {"files", "dir", "repo"}
RecognizedKeywords ==
    {"stg_branches", "all_branches", "applied_patches", "unapplied_patches",
     "hidden_patches", "other_applied_patches", "commit", "conflicting_files",
     "dirty_files", "unknown_files", "known_files", "mail_aliases"}

IsRange(a) == a.kind = "patch_range"
IsLiteral(a) == a.kind = "strings"
IsPathLike(a) == a.kind = "str" /\ a.items[1] \in PathKinds
IsDynamicKeyword(a) == a.kind = "str" /\ a.items[1] \in RecognizedKeywords
IsMalformed(a) == ~(IsRange(a) \/ IsLiteral(a) \/ IsPathLike(a) \/ IsDynamicKeyword(a))
HasMalformed(args) == \E k \in 1..Len(args) : IsMalformed(args[k])
HasPathLike(args) == \E k \in 1..Len(args) : IsPathLike(args[k])

ProviderToken(keyword) == "(__fish_stg_" \o keyword \o ")"

\* the tokens one specification contributes
TokensOf(a) ==
    IF IsLiteral(a) THEN a.items
    ELSE IF IsRange(a)
    THEN LET rec == SelectSeq(a.items, LAMBDA e : e \in RecognizedKeywords)
         IN [k \in 1..Len(rec) |-> ProviderToken(rec[k])]
    ELSE IF IsDynamicKeyword(a) THEN <<ProviderToken(a.items[1])>>
    ELSE <<>>

RECURSIVE ExpectedTokens(_)
ExpectedTokens(args) ==
    IF Len(args) = 0 THEN <<>>
    ELSE TokensOf(Head(args)) \o ExpectedTokens(Tail(args))

RECURSIVE SumLen(_, _)
SumLen(toks, k) == IF k = 0 THEN 0 ELSE SumLen(toks, k - 1) + Len(toks[k])

\* R is the tokens in order with exactly one space between neighbours
IsSpaceJoin(R, toks) ==
    LET n == Len(toks)
        first(k) == SumLen(toks, k - 1) + k
        last(k) == SumLen(toks, k) + k - 1
    IN IF n = 0 THEN R = ""
       ELSE /\ Len(R) = SumLen(toks, n) + n - 1
            /\ \A k \in 1..n : SubSeq(R, first(k), last(k)) = toks[k]
            /\ \A k \in 1..(n - 1) : SubSeq(R, last(k) + 1, last(k) + 1) = " "

\* ------------------------------------------------------------------ C1
SectionOf(site) ==
    CASE site = "preamble" -> 1
      [] site = "is_alias" -> 2
      [] site \in {"dispatch_head", "dispatch_case", "dispatch_set", "dispatch_end"} -> 3
      [] site \in {"aliases_header", "alias_complete", "alias_use"} -> 4
      [] site \in {"blank", "help_header", "help_use", "help_cmd"} -> 5
      [] site = "help_alias" -> 6
      [] OTHER -> 7

\* the order of spec 4.5: (d) holds both directives of every alias, (e) the help
\* listing of the real commands; the separators between (d) and (e) are left out
ClaimedSectionOf(site) ==
    CASE site = "preamble" -> 1
      [] site = "is_alias" -> 2
      [] site \in {"dispatch_head", "dispatch_case", "dispatch_set", "dispatch_end"} -> 3
      [] site \in {"aliases_header", "alias_complete", "alias_use", "help_alias"} -> 4
      [] site = "help_cmd" -> 5
      [] site \in BlockSites -> 6
      [] OTHER -> 0

\* the number of writes a section's call site makes in a complete run
ExpectedCount(site) ==
    IF site \in {"dispatch_case", "dispatch_set", "alias_use", "help_alias"}
    THEN Len(aliases)
    ELSE IF site = "help_cmd" THEN Len(commands)
    ELSE 1

\* C1 as stated: sections (a) (b) (c) (d) (e) (f) in this order, so every alias's
\* help-listing line is written before every real command's help-listing line.
C1_ClaimedSectionOrder ==
    \A p, q \in 1..Len(out) :
        (p < q /\ ClaimedSectionOf(out[p].site) # 0 /\ ClaimedSectionOf(out[q].site) # 0)
            => ClaimedSectionOf(out[p].site) <= ClaimedSectionOf(out[q].site)

\* C1 amended: the sections are written in the order preamble, alias-detection
\* function, alias-dispatch function, top-level alias suggestions, help listing of
\* the real commands, help listing of the aliases, command blocks; no write of a
\* later section precedes a write of an earlier one, and a section is complete
\* before the next one starts.
C1_SectionOrder ==
    \A q \in 1..Len(out) :
        /\ \A p \in 1..(q - 1) : SectionOf(out[p].site) <= SectionOf(out[q].site)
        /\ \A s \in NonBlockSites :
              SectionOf(s) < SectionOf(out[q].site) => CountUpTo(s, q - 1) = ExpectedCount(s)

C1_Witness ==
    /\ pc = "done"
    /\ Len(aliases) >= 2
    /\ Len(commands) >= 2
    /\ \E p, q \in 1..Len(out) :
          p < q /\ out[p].site = "help_cmd" /\ out[q].site = "help_alias"

\* ------------------------------------------------------------------ C2
\* C2: for a list of well-formed specifications _completions_from_args returns
\* (does not raise) the string made of one token per Literal value, one provider
\* call per recognized Range endpoint, one per DynamicKeyword and none per
\* PathLike, in the order of the list, with exactly one space between tokens.
C2_TokensPerSpecification ==
    \A args \in AllArgLists :
        ~HasMalformed(args) =>
            LET r == _completions_from_args(args) IN
            /\ ~r.raised
            /\ Len(r.ret) = 1
            /\ IsSpaceJoin(r.ret[1], ExpectedTokens(args))

C2_Witness ==
    /\ pc = "done"
    /\ commands[1].args = << patch_range(<<"dir", "hidden_patches">>), strings(<<"a", "b">>) >>
    /\ \E p \in 1..Len(out) :
          /\ out[p].site = "cmd_args"
          /\ out[p].idx = 1
          /\ ValueExpr(p) = "-ra '(__fish_stg_hidden_patches) a b'"

\* ------------------------------------------------------------------ C3
ExpectedFlag(args) == IF HasPathLike(args) THEN "-r" ELSE "-f"

\* C3: the completion flag is "-r" exactly when some top-level element of the
\* argument list is a PathLike kind, whatever the other elements and its position,
\* and "-f" otherwise; the positional and option directives carry that flag.
C3_FlagSelection ==
    /\ \A args \in AllArgLists : _get_file_completion_flag(args) = ExpectedFlag(args)
    /\ \A p \in 1..Len(out) :
          out[p].site \in {"cmd_args", "cmd_opt"} =>
              out[p].args[2] = ExpectedFlag(LineArgList(p))

C3_Witness ==
    /\ commands[1].args = << strings(<<"files">>), word("dir") >>
    /\ \E p \in 1..Len(out) :
          out[p].site = "cmd_args" /\ out[p].idx = 1 /\ out[p].args[2] = "-r"

\* ------------------------------------------------------------------ C4
\* C4: an argument list with a malformed specification at any position makes
\* _completions_from_args raise and return nothing; write_fish_completion then
\* writes neither the directive of that list nor anything after it, and never
\* returns normally.
C4_MalformedAborts ==
    /\ \A args \in AllArgLists :
          HasMalformed(args) =>
              LET r == _completions_from_args(args) IN r.raised /\ r.ret = <<>>
    /\ \A c \in 1..Len(commands) :
          HasMalformed(commands[c].args) =>
              /\ pc # "done"
              /\ \A p \in 1..Len(out) :
                    out[p].site \in BlockSites =>
                        \/ out[p].idx < c
                        \/ out[p].idx = c /\ out[p].site \in {"cmd_header", "cmd_use"}
    /\ \A c \in 1..Len(commands) :
          \A k \in 1..Len(commands[c].options) :
              HasMalformed(commands[c].options[k].args) =>
                  /\ pc # "done"
                  /\ CountFor("cmd_opt", c) < k
                  /\ \A p \in 1..Len(out) : out[p].site \in BlockSites => out[p].idx <= c
    /\ pc = "raised" =>
          \/ HasMalformed(commands[i].args)
          \/ \E k \in 1..Len(commands[i].options) : HasMalformed(commands[i].options[k].args)

C4_Witness ==
    /\ pc = "raised"
    /\ Len(commands[1].args) = 2
    /\ ~IsMalformed(commands[1].args[1])
    /\ IsMalformed(commands[1].args[2])
    /\ Len(out) > 0
    /\ out[Len(out)].site = "cmd_use"

\* ------------------------------------------------------------------ C5
ExpectedBlockSites(c) ==
    <<"cmd_header", "cmd_use", "cmd_args", "cmd_helpflag">>
    \o [k \in 1..Len(commands[c].options) |-> "cmd_opt"]

\* C5: the block of a command is, in this order, its separator, one registration
\* directive, one positional directive, one help-flag directive and one directive
\* per option in declaration order; the block is contiguous in the output.
C5_BlockOrder ==
    \A c \in 1..Len(commands) :
        /\ IsPrefix(BlockSiteSeq(c), ExpectedBlockSites(c))
        /\ Finished(c) => BlockSiteSeq(c) = ExpectedBlockSites(c)
        /\ \A p, q \in Positions(c) : \A r \in p..q : r \in Positions(c)
        /\ \A p \in Positions(c) :
              /\ out[p].site = "cmd_use" =>
                    out[p].text = "complete    -c stg -n '__fish_use_subcommand' -x -a "
                                  \o commands[c].name \o " -d '" \o commands[c].help \o "'"
              /\ out[p].site = "cmd_helpflag" => Contains(out[p].text, " -s h -l help ")
              /\ out[p].site = "cmd_opt" =>
                    out[p].args[7] = "-d '" \o commands[c].options[OptIndex(p)].short \o "'"

C5_Witness ==
    /\ pc = "done"
    /\ Len(commands) = 2
    /\ Len(commands[1].options) = 2
    /\ commands[1].options[1].short # commands[1].options[2].short
    /\ CountFor("cmd_opt", 1) = 2

\* ------------------------------------------------------------------ C6
Scoped(text, name) == Contains(text, "-n '__fish_seen_subcommand_from " \o name \o "'")

\* C6 as stated: every directive of a command's block carries the predicate
\* '__fish_seen_subcommand_from <cmd>' of that command.
C6_AllDirectivesScoped ==
    \A p \in 1..Len(out) :
        out[p].site \in BlockDirectives => Scoped(out[p].text, commands[out[p].idx].name)

\* C6 amended: the positional, help-flag and option directives of a command carry
\* the predicate '__fish_seen_subcommand_from <cmd>' of that command and of no
\* other command; the registration directive carries '__fish_use_subcommand'
\* instead and no seen-subcommand predicate.
C6_ScopedExceptRegistration ==
    \A p \in 1..Len(out) :
        LET c == out[p].idx IN
        /\ out[p].site \in {"cmd_args", "cmd_helpflag", "cmd_opt"} =>
              /\ Scoped(out[p].text, commands[c].name)
              /\ \A d \in 1..Len(commands) : d # c => ~Scoped(out[p].text, commands[d].name)
              /\ ~Contains(out[p].text, "__fish_use_subcommand")
        /\ out[p].site = "cmd_use" =>
              /\ Contains(out[p].text, " -n '__fish_use_subcommand' ")
              /\ ~Contains(out[p].text, "__fish_seen_subcommand_from")

C6_Witness ==
    /\ pc = "done"
    /\ \E c, d \in 1..Len(commands) :
          /\ c # d
          /\ \E k \in 1..Len(commands[c].options), m \in 1..Len(commands[d].options) :
                commands[c].options[k].flags = commands[d].options[m].flags
          /\ CountFor("cmd_opt", c) > 0
          /\ CountFor("cmd_opt", d) > 0

\* ------------------------------------------------------------------ C7
AliasNamespace == "stgit.alias."

InNamespace(name) ==
    /\ Len(name) >= Len(AliasNamespace)
    /\ \A k \in 1..Len(AliasNamespace) : SubSeq(name, k, k) = SubSeq(AliasNamespace, k, k)

\* the entries of the defaults table that lie in the alias namespace, in table order
AliasEntries == SelectSeq(DEFAULTS, LAMBDA e : InNamespace(e[1]))

\* C7: the alias list is the entries of the defaults table whose key starts with
\* 'stgit.alias.', in table order, each as (key without its prefix, first value);
\* the target is rendered as stored, also when it names another alias.
C7_AliasResolution ==
    pc # "start" =>
        /\ Len(aliases) = Len(AliasEntries)
        /\ \A k \in 1..Len(aliases) :
              LET key == AliasEntries[k][1] IN
              aliases[k] = << SubSeq(key, Len(AliasNamespace) + 1, Len(key)),
                              AliasEntries[k][2][1] >>
        /\ \A p \in 1..Len(out) :
              out[p].site = "dispatch_set" =>
                  out[p].text = "            set --prepend tokens "
                                \o AliasEntries[out[p].idx][2][1]

C7_Witness ==
    /\ pc = "done"
    /\ DEFAULTS = << <<"stgit.alias.s", <<"status">>>>, <<"stgit.alias.c", <<"co">>>> >>
    /\ aliases = << <<"s", "status">>, <<"c", "co">> >>
    /\ Lines("dispatch_set")[2].text = "            set --prepend tokens co"

\* ------------------------------------------------------------------ C8
\* C8: for n aliases the script holds n dispatch case blocks, n top-level
\* suggestion directives and n help-listing lines, each in table order and each
\* annotated with its own target, and the alias-detection function lists the n
\* alias names as case labels in table order.
C8_AliasLines ==
    InCommandLoop =>
        LET n == Len(aliases) IN
        /\ Len(Lines("dispatch_case")) = n
        /\ Len(Lines("dispatch_set")) = n
        /\ Len(Lines("alias_use")) = n
        /\ Len(Lines("help_alias")) = n
        /\ \A k \in 1..n :
              /\ Lines("dispatch_case")[k].text = "        case " \o aliases[k][1]
              /\ Lines("dispatch_set")[k].text =
                    "            set --prepend tokens " \o aliases[k][2]
              /\ Lines("alias_use")[k].text =
                    "complete    -c stg -n '__fish_use_subcommand' -x -a " \o aliases[k][1]
                    \o " -d 'Alias for \"" \o aliases[k][2] \o "\"'"
              /\ Lines("help_alias")[k].text =
                    "complete -f -c stg -n '__fish_seen_subcommand_from help' -a "
                    \o aliases[k][1] \o " -d 'Alias for \"" \o aliases[k][2] \o "\"'"
        /\ \A p \in 1..Len(out) :
              out[p].site = "dispatch_case" =>
                  /\ p < Len(out)
                  /\ out[p + 1].site = "dispatch_set"
                  /\ out[p + 1].idx = out[p].idx
        /\ Len(Lines("is_alias")) = 1
        /\ Contains(Lines("is_alias")[1].text,
                    "\n            case " \o join(AliasNames(aliases), " ")
                    \o "\n                return 0\n")

C8_Witness ==
    /\ pc = "done"
    /\ aliases = << <<"co", "checkout">>, <<"s", "status">> >>
    /\ Len(Lines("help_alias")) = 2

\* ------------------------------------------------------------------ C9
IsShortFlag(f) == Len(f) = 2 /\ SubSeq(f, 1, 1) = "-" /\ SubSeq(f, 2, 2) # "-"
IsLongFlag(f) == Len(f) > 2 /\ SubSeq(f, 1, 2) = "--"
Blank(s) == \A k \in 1..Len(s) : SubSeq(s, k, k) = " "

\* C9: an option directive is put(complete, flag, -c stg, predicate, short token,
\* long token, description, value expression) in this order; the short token is
\* '-s <c>' or a blank placeholder, the long token '-l <name>' or empty, and the
\* text is the eight tokens joined by single spaces, absent ones included.
C9_OptionDirectiveShape ==
    \A p \in 1..Len(out) :
        out[p].site = "cmd_opt" =>
            LET c == out[p].idx
                opt == commands[c].options[OptIndex(p)]
                a == out[p].args
                shorts == {f \in Elems(opt.flags) : IsShortFlag(f)}
                longs == {f \in Elems(opt.flags) : IsLongFlag(f)}
            IN /\ Len(a) = 8
               /\ a[1] = "complete"
               /\ a[2] = ExpectedFlag(opt.args)
               /\ a[3] = "-c stg"
               /\ a[4] = "-n '__fish_seen_subcommand_from " \o commands[c].name \o "'"
               /\ IF shorts # {}
                  THEN \E f \in shorts : a[5] = "-s " \o SubSeq(f, 2, 2)
                  ELSE Blank(a[5])
               /\ IF longs # {}
                  THEN \E f \in longs : a[6] = "-l " \o SubSeq(f, 3, Len(f))
                  ELSE a[6] = ""
               /\ a[7] = "-d '" \o opt.short \o "'"
               /\ out[p].text = a[1] \o " " \o a[2] \o " " \o a[3] \o " " \o a[4] \o " "
                                \o a[5] \o " " \o a[6] \o " " \o a[7] \o " " \o a[8]
               /\ (opt.flags = <<"-m", "--message">> /\ opt.args = <<strings(<<>>)>>) =>
                     out[p].text = "complete -f -c stg -n '__fish_seen_subcommand_from "
                                   \o commands[c].name
                                   \o "' -s m -l message -d 'patch message' "

C9_Witness ==
    /\ pc = "done"
    /\ \E p \in 1..Len(out) :
          /\ out[p].site = "cmd_opt"
          /\ out[p].idx = 1
          /\ commands[1].options[1].flags = <<"--message">>
          /\ out[p].text = "complete -r -c stg -n '__fish_seen_subcommand_from new'"
                           \o "      -l message -d 'patch message' -xa '(__fish_stg_commit)'"

\* ----------------------------------------------------------------- C10
\* C10 as stated: the value expression is attached exactly when the token list of
\* the argument list is non-empty, a single empty Literal value included.
C10_AttachedIffTokens ==
    \A p \in 1..Len(out) :
        out[p].site \in {"cmd_args", "cmd_opt"} =>
            (ValueExpr(p) # "" <=> ExpectedTokens(LineArgList(p)) # <<>>)

\* C10 amended: the positional directive and every option directive are always
\* written; the value expression (-ra '<expr>' for positionals, -xa '<expr>' for
\* options) is attached exactly when the tokens joined by single spaces form a
\* non-empty string, that is unless the token list is empty or is one empty
\* string, and <expr> is then that joined string.
C10_AttachedIffExpression ==
    /\ \A p \in 1..Len(out) :
          out[p].site \in {"cmd_args", "cmd_opt"} =>
              LET toks == ExpectedTokens(LineArgList(p))
                  e == ValueExpr(p)
                  sw == IF out[p].site = "cmd_args" THEN "-ra '" ELSE "-xa '"
              IN IF Len(toks) = 0 \/ toks = <<"">>
                 THEN e = ""
                 ELSE /\ Len(e) > Len(sw)
                      /\ SubSeq(e, 1, Len(sw)) = sw
                      /\ SubSeq(e, Len(e), Len(e)) = "'"
                      /\ IsSpaceJoin(SubSeq(e, Len(sw) + 1, Len(e) - 1), toks)
    /\ \A c \in 1..Len(commands) :
          /\ CountFor("cmd_helpflag", c) > 0 => CountFor("cmd_args", c) = 1
          /\ Finished(c) => CountFor("cmd_opt", c) = Len(commands[c].options)

C10_Witness ==
    /\ pc = "done"
    /\ commands[1].args = << strings(<<"">>) >>
    /\ \E p \in 1..Len(out) :
          /\ out[p].site = "cmd_args"
          /\ out[p].idx = 1
          /\ ValueExpr(p) = ""
          /\ out[p].text = "complete -f -c stg -n '__fish_seen_subcommand_from new' "

====
